---- MODULE Spec2Model ----
(***************************************************************************)
(* Checkout / inventory reservation (core/views.py OrderViewSet.create)    *)
(* and the loyalty award on delivery (core/signals.py award_points_logic)  *)
(* of the mermaid-ecomapp backend.                                         *)
(*                                                                         *)
(* Money is held in centimes (1.00 DH = 100).  The database is modelled    *)
(* as committed rows (stock, cart, orders, coupons, profile, history);     *)
(* a checkout request keeps its uncommitted writes in req[r] until the     *)
(* @transaction.atomic block commits or rolls back.                        *)
(***************************************************************************)
EXTENDS Integers, Sequences, FiniteSets, TLC

\* ------------------------------------------------------------------ bounds
MaxStock == 3
MaxQty == 2
MaxCartLines == 2
MaxTicks == 1
MaxCartAdds == 1
MaxSaves == 3
MaxOrders == 2
MaxConversions == 2

\* ------------------------------------------------------- program constants
ActiveOrderLimit == 3
ThirtyDays == 2592000
CasablancaFee == 1000
DefaultFee == 2500
GoldThreshold == 2000
SilverThreshold == 500
SpendPerPoint == 1000
MinBurn == 100

\* ------------------------------------------------------------------ values
None == "None"
ColorNONE == "NONE"
Truthy(s) == s # None /\ s # ""

Users == {"u1", "u2"}
UserId == [u \in Users |-> IF u = "u1" THEN 1 ELSE 2]
Requests == {"r1", "r2"}

PENDING == "PENDING"
PROCESSING == "PROCESSING"
SHIPPED == "SHIPPED"
DELIVERED == "DELIVERED"
CANCELLED == "CANCELLED"
RETURNED == "RETURNED"
REFUNDED == "REFUNDED"
OrderStatus == {PENDING, PROCESSING, SHIPPED, DELIVERED, CANCELLED, RETURNED, REFUNDED}
undelivered_statuses == {PENDING, PROCESSING, SHIPPED}

\* The clock, in seconds.  T0 is the instant the model starts at.
T0 == ThirtyDays + 408000

\* ----------------------------------------------------------------- catalog
Products == {"P1", "P2"}
Price == [p \in Products |-> IF p = "P1" THEN 10000 ELSE 9997]

\* ProductVariant rows: pk -> (product, size value, color); unique together.
VariantIds == {1, 2}
VariantRow ==
    [v \in VariantIds |->
        IF v = 1 THEN [product |-> "P1", size |-> "M", color |-> "RED"]
                 ELSE [product |-> "P2", size |-> None, color |-> ColorNONE]]
NoVariant == 0

\* ShippingCity.choices (the values the serializer's ChoiceField accepts).
ShippingCity == {"CASABLANCA", "RABAT"}
CityInputs == ShippingCity \cup {"casablanca"}
Upper(s) == IF s = "casablanca" THEN "CASABLANCA" ELSE s

\* helpers.calculate_shipping_fee
calculate_shipping_fee(city) ==
    IF Upper(IF Truthy(city) THEN city ELSE "") = "CASABLANCA"
    THEN CasablancaFee
    ELSE DefaultFee

NoCoupon == "NoCoupon"

VARIABLES
    now,        \* timezone.now(), seconds
    stock,      \* ProductVariant.quantity, committed
    cart,       \* CartItem rows of each user's cart, in row order
    orders,     \* committed Order rows (with their OrderItem rows)
    coupons,    \* Coupon rows by code
    nextPk,     \* the Order primary-key sequence
    req,        \* the checkout requests in flight
    profile,    \* LoyaltyProfile row of each user
    history,    \* LoyaltyHistory rows, in insertion order
    saver,      \* the order-save calls in flight
    cartAdds,   \* how many cart requests have been served (bounds the run)
    stock0,     \* the stock the run started with (never written)
    saves,      \* how many order saves have been started (bounds the run)
    jobs        \* order pks queued for tasks.send_order_confirmation_email

vars == <<now, stock, cart, orders, coupons, nextPk, req, profile, history, saver,
          cartAdds, stock0, saves, jobs>>

\* ----------------------------------------------------------------- helpers
\* Order.objects.get(pk=pk)
OrderByPkOf(rows, pk) == CHOOSE o \in rows : o.pk = pk

Min(S) == CHOOSE x \in S : \A y \in S : x <= y

RECURSIVE SumSeq(_)
SumSeq(s) == IF s = <<>> THEN 0 ELSE Head(s) + SumSeq(Tail(s))

\* OrderItem.get_subtotal, summed over the items of an order
get_subtotal(it) == it.product_price * it.quantity
ItemsSubtotal(items) == SumSeq([i \in 1..Len(items) |-> get_subtotal(items[i])])

\* Deviation: a line priced without its quantity
get_total_item_price_Unit(item) == Price[item.product]

\* CartItem.get_total_item_price
get_total_item_price(item) == item.quantity * Price[item.product]

\* ProductVariant.objects.filter(product=..)[.filter(size__value=..)][.filter(color=..)]
VariantQs(product, size, color) ==
    {v \in VariantIds :
        /\ VariantRow[v].product = product
        /\ (Truthy(size) => VariantRow[v].size = size)
        /\ (Truthy(color) => VariantRow[v].color = color)}

\* QuerySet.first(): the row of lowest pk, or None
First(S) == IF S = {} THEN NoVariant ELSE Min(S)

\* ------------------------------------------------------------ request state
NoOrder == [pk |-> 0]
NoQuantities == [v \in VariantIds |-> 0]

IdleReq(u) ==
    [user |-> u, pc |-> "idle", result |-> "", city |-> None, code |-> None,
     order |-> NoOrder, items |-> <<>>, idx |-> 0, total |-> 0,
     order_items |-> <<>>, locks |-> {}, quantity |-> NoQuantities, pk |-> 0]

\* A request that has returned: only its outcome is kept.
DoneReq(r, result, pk) ==
    [IdleReq(req[r].user) EXCEPT !.pc = "done", !.result = result, !.pk = pk]

InFlight(r) == req[r].pc \in {"insert", "read", "lines"}

\* The quantity of variant v as request r's transaction sees it: its own
\* uncommitted write if it holds the row lock, the committed row otherwise.
TxQuantity(r, v) == IF v \in req[r].locks THEN req[r].quantity[v] ELSE stock[v]

\* Deviation: the variant row read without select_for_update
LockedByOther_Never(r, v) == FALSE

\* select_for_update: another transaction holds the lock of row v
LockedByOther(r, v) == \E o \in Requests \ {r} : v \in req[o].locks

\* @transaction.atomic: what the variant rows become on commit / on rollback
CommitStock(r) == [v \in VariantIds |-> TxQuantity(r, v)]

\* Deviation: no atomic block: the decrements made before the exception stay
RollbackStock_Kept(r) == CommitStock(r)

RollbackStock(r) == stock

\* A guard returned an error Response, or an exception left the atomic block:
\* nothing the transaction wrote is kept.
Rollback(r, result) ==
    /\ req' = [req EXCEPT ![r] = DoneReq(r, result, 0)]
    /\ stock' = RollbackStock(r)
    /\ UNCHANGED <<now, cart, orders, coupons, nextPk, profile, history, saver, cartAdds, stock0, saves, jobs>>

\* An early `return Response(...)` inside the atomic block: the transaction
\* commits, having written nothing.
Return(r, result) ==
    /\ req' = [req EXCEPT ![r] = DoneReq(r, result, 0)]
    /\ stock' = CommitStock(r)
    /\ UNCHANGED <<now, cart, orders, coupons, nextPk, profile, history, saver, cartAdds, stock0, saves, jobs>>

\* ------------------------------------------------------------------ clock
Tick ==
    /\ now < T0 + MaxTicks
    /\ now' = now + 1
    /\ UNCHANGED <<stock, cart, orders, coupons, nextPk, req, profile, history, saver, cartAdds, stock0, saves, jobs>>

\* ------------------------------------------------- OrderViewSet.create
\* Deviation: the limit counted without the thirty-day window
ActiveOrders_NoWindow(u) ==
    {o \in orders : o.user = u /\ o.status \in undelivered_statuses}

\* Deviation: the window compared strictly
ActiveOrders_StrictWindow(u) ==
    {o \in orders :
        /\ o.user = u
        /\ o.status \in undelivered_statuses
        /\ o.created_at > now - ThirtyDays}

\* views.py 583-587: this user's committed orders that count toward the limit
ActiveOrders(u) ==
    {o \in orders :
        /\ o.user = u
        /\ o.status \in undelivered_statuses
        /\ o.created_at >= now - ThirtyDays}

active_orders_count(u) == Cardinality(ActiveOrders(u))

\* Deviation: the active-order limit tested before the empty cart
CheckoutGuards_LimitFirst(r, city, code) ==
    /\ req[r].pc = "idle"
    /\ LET u == req[r].user IN
       IF active_orders_count(u) >= ActiveOrderLimit
       THEN Return(r, "limit")
       ELSE IF cart[u] = <<>>
       THEN Return(r, "empty")
       ELSE /\ req' = [req EXCEPT ![r].pc = "insert", ![r].city = city, ![r].code = code]
            /\ UNCHANGED <<now, stock, cart, orders, coupons, nextPk, profile, history, saver, cartAdds, stock0, saves, jobs>>

\* views.py 569-596: the request arrives; empty-cart guard, then the
\* active-order limit.
CheckoutGuards(r, city, code) ==
    /\ req[r].pc = "idle"
    /\ LET u == req[r].user IN
       IF cart[u] = <<>>
       THEN Return(r, "empty")
       ELSE IF active_orders_count(u) >= ActiveOrderLimit
       THEN Return(r, "limit")
       ELSE /\ req' = [req EXCEPT ![r].pc = "insert", ![r].city = city, ![r].code = code]
            /\ UNCHANGED <<now, stock, cart, orders, coupons, nextPk, profile, history, saver, cartAdds, stock0, saves, jobs>>

\* Order.save, models.py 608-613: ORD-<timestamp>-<user id>
order_id(u) == <<now, UserId[u]>>

\* views.py 609-614: the coupon the code resolves to, or none
CouponLookup(code) ==
    IF /\ Truthy(code)
       /\ code \in DOMAIN coupons
       /\ coupons[code].active
       /\ coupons[code].valid_from <= now
       /\ coupons[code].valid_to >= now
    THEN code
    ELSE NoCoupon

\* The Order row serializer.save(user=...) inserts (model defaults), with the
\* coupon attached by views.py 615-617.
NewOrder(r) ==
    [pk |-> nextPk,
     order_id |-> order_id(req[r].user),
     user |-> req[r].user,
     status |-> PENDING,
     created_at |-> now,
     city |-> req[r].city,
     shipping_fee |-> 0,
     total_amount |-> 0,
     coupon |-> CouponLookup(req[r].code),
     items |-> <<>>]

\* order_id is unique: an uncommitted row with the same key makes the INSERT
\* wait for that transaction to end.
OrderIdPending(r) ==
    \E o \in Requests \ {r} :
        /\ req[o].order # NoOrder
        /\ req[o].order.order_id = order_id(req[r].user)

OrderIdTaken(r) == \E o \in orders : o.order_id = order_id(req[r].user)

\* views.py 599-617: validate the payload, insert the Order row, attach the
\* coupon.
CheckoutInsert(r) ==
    /\ req[r].pc = "insert"
    /\ IF req[r].city \notin ShippingCity
       THEN Rollback(r, "invalid")
       ELSE /\ ~OrderIdPending(r)
            /\ IF OrderIdTaken(r)
               THEN Rollback(r, "integrity")
               ELSE /\ req' = [req EXCEPT ![r].pc = "read", ![r].order = NewOrder(r)]
                    /\ nextPk' = nextPk + 1
                    /\ UNCHANGED <<now, stock, cart, orders, coupons, profile, history, saver, cartAdds, stock0, saves, jobs>>

\* views.py 623: the cart lines the loop iterates over are fetched once
CheckoutReadCart(r) ==
    /\ req[r].pc = "read"
    /\ req' = [req EXCEPT ![r].pc = "lines", ![r].items = cart[req[r].user], ![r].idx = 1]
    /\ UNCHANGED <<now, stock, cart, orders, coupons, nextPk, profile, history, saver, cartAdds, stock0, saves, jobs>>

\* Deviation: every order item written with quantity 1
OrderItemOf_UnitQuantity(item) ==
    [product |-> item.product,
     product_price |-> Price[item.product],
     size |-> item.size,
     color |-> item.color,
     quantity |-> 1]

\* views.py 650-660: the order item copied from the cart line
OrderItemOf(item) ==
    [product |-> item.product,
     product_price |-> Price[item.product],
     size |-> item.size,
     color |-> item.color,
     quantity |-> item.quantity]

\* Deviation: the stock check of views.py 640 left out
HasStock_Unchecked(available, wanted) == TRUE

\* Deviation: the stock check with the comparison off by one
HasStock_Strict(available, wanted) == available > wanted

\* views.py 640: is the stock sufficient for this line
HasStock(available, wanted) == available >= wanted

\* views.py 623-660: one cart line: find and lock the variant, check the
\* stock, decrement, add the price, snapshot the line.  quantity is a
\* PositiveIntegerField: saving a negative value violates the column's CHECK
\* and the IntegrityError leaves the atomic block.
CheckoutLine(r) ==
    /\ req[r].pc = "lines"
    /\ req[r].idx <= Len(req[r].items)
    /\ LET item == req[r].items[req[r].idx]
           variant == First(VariantQs(item.product, item.size, item.color))
           selected == Truthy(item.size) \/ Truthy(item.color)
       IN
       /\ variant # NoVariant => ~LockedByOther(r, variant)
       /\ IF selected /\ variant = NoVariant
          THEN Rollback(r, "notfound")
          ELSE IF selected /\ ~HasStock(TxQuantity(r, variant), item.quantity)
          THEN Rollback(r, "outofstock")
          ELSE IF selected /\ TxQuantity(r, variant) - item.quantity < 0
          THEN Rollback(r, "negative")
          ELSE /\ req' =
                    [req EXCEPT
                        ![r].locks = IF variant = NoVariant THEN @ ELSE @ \cup {variant},
                        ![r].quantity =
                            IF variant = NoVariant
                            THEN @
                            ELSE [@ EXCEPT ![variant] =
                                    IF selected
                                    THEN TxQuantity(r, variant) - item.quantity
                                    ELSE TxQuantity(r, variant)],
                        ![r].total = @ + get_total_item_price(item),
                        ![r].order_items = Append(@, OrderItemOf(item)),
                        ![r].idx = @ + 1]
               /\ UNCHANGED <<now, stock, cart, orders, coupons, nextPk, profile, history, saver, cartAdds, stock0, saves, jobs>>

\* The variant row request r is waiting for, if any
WaitsFor(r) ==
    IF req[r].pc = "lines" /\ req[r].idx <= Len(req[r].items)
    THEN LET item == req[r].items[req[r].idx]
             variant == First(VariantQs(item.product, item.size, item.color))
         IN  IF variant # NoVariant /\ LockedByOther(r, variant)
             THEN variant
             ELSE NoVariant
    ELSE NoVariant

\* Two transactions each wait for a row the other has locked: the database
\* aborts one of them, the exception leaves the atomic block.
CheckoutDeadlock(r) ==
    /\ WaitsFor(r) # NoVariant
    /\ \E o \in Requests \ {r} :
          /\ WaitsFor(r) \in req[o].locks
          /\ WaitsFor(o) # NoVariant
          /\ WaitsFor(o) \in req[r].locks
    /\ Rollback(r, "deadlock")

\* views.py 665-669, in 1/100 centime: total - total * pct / 100
Discounted(total, coupon) ==
    IF coupon # NoCoupon
    THEN total * 100 - total * coupons[coupon].discount_percentage
    ELSE total * 100

\* DecimalField(decimal_places=2): the stored value is the nearest centime; a
\* tie goes up (numeric column) or to the even centime (quantize), by backend.
Stored(x) ==
    LET q == x \div 100
        rem == x % 100
    IN  IF rem < 50 THEN {q}
        ELSE IF rem > 50 THEN {q + 1}
        ELSE {q + 1, IF q % 2 = 0 THEN q ELSE q + 1}

\* views.py 662-678: bulk-create the items, apply the discount, save the
\* total, clear the cart; the atomic block commits.
CheckoutFinish(r) ==
    /\ req[r].pc = "lines"
    /\ req[r].idx > Len(req[r].items)
    /\ \E t \in Stored(Discounted(req[r].total, req[r].order.coupon)) :
          orders' = orders \cup
              {[req[r].order EXCEPT !.total_amount = t, !.items = req[r].order_items]}
    /\ stock' = CommitStock(r)
    /\ cart' = [cart EXCEPT ![req[r].user] = <<>>]
    /\ req' = [req EXCEPT ![r] = DoneReq(r, "created", req[r].order.pk)]
    /\ UNCHANGED <<now, coupons, nextPk, profile, history, saver, cartAdds, stock0, saves, jobs>>

\* ------------------------------------------------- CartItemViewSet.create
\* CartItemSerializer.validate, serializers.py 334-363: a selected size or
\* color must name exactly one variant, with enough stock.
CartItemValid(product, size, color, quantity) ==
    (Truthy(size) \/ Truthy(color)) =>
        LET variants == VariantQs(product, size, color) IN
        /\ Cardinality(variants) = 1
        /\ stock[Min(variants)] >= quantity

\* views.py 515-517: positions of the cart lines with the same product, size
\* and color (a None color compares with no row; a None size with NULL sizes)
ExistingItems(u, product, size, color) ==
    {i \in 1..Len(cart[u]) :
        /\ cart[u][i].product = product
        /\ cart[u][i].size = size
        /\ color # None
        /\ cart[u][i].color = color}

\* unique_together (cart, product, size, color); NULL sizes never collide
CartItemCollides(u, product, size, color) ==
    /\ size # None
    /\ \E i \in 1..Len(cart[u]) :
          /\ cart[u][i].product = product
          /\ cart[u][i].size = size
          /\ cart[u][i].color = color

\* views.py 500-545: add a line, or raise the quantity of the matching line.
\* A rejected request (validation error, integrity error) changes nothing.
AddToCart(u, product, size, color, quantity) ==
    /\ cartAdds < MaxCartAdds
    /\ CartItemValid(product, size, color, quantity)
    /\ LET existing == ExistingItems(u, product, size, color) IN
       IF existing # {}
       THEN LET i == Min(existing)
                new_qty == cart[u][i].quantity + quantity
                variant == First(VariantQs(product, size, color))
            IN  /\ ~((Truthy(size) \/ Truthy(color)) /\ variant # NoVariant
                        /\ stock[variant] < new_qty)
                /\ cart' = [cart EXCEPT ![u][i].quantity = new_qty]
       ELSE LET stored_color == IF color = None THEN ColorNONE ELSE color IN
            /\ Len(cart[u]) < MaxCartLines
            /\ ~CartItemCollides(u, product, size, stored_color)
            /\ cart' = [cart EXCEPT ![u] =
                          Append(@, [product |-> product, size |-> size,
                                     color |-> stored_color, quantity |-> quantity])]
    /\ cartAdds' = cartAdds + 1
    /\ UNCHANGED <<now, stock, orders, coupons, nextPk, req, profile, history, saver, stock0, saves, jobs>>

\* ------------------------------------------------------------------- Init
\* Coupon rows (models.py 538-557)
CouponRow(pct, fixed, from, to, active, owner, used) ==
    [discount_percentage |-> pct, fixed_discount_amount |-> fixed,
     valid_from |-> from, valid_to |-> to, active |-> active,
     owner |-> owner, is_used |-> used, used_at |-> None]

\* SAVE10 and HALF are valid percentage coupons; OLD has expired; SOON
\* becomes valid one second after T0; OFF is switched off; FIXED carries a
\* fixed amount of 20.00 beside its percentage; USED has been marked used
\* (CouponAdmin lets an operator set is_used); OWNED is bound to owner u2.
CouponTable ==
    [c \in {"SAVE10", "HALF", "OLD", "SOON", "OFF", "FIXED", "USED", "OWNED"} |->
        CASE c = "SAVE10" -> CouponRow(10, 0, T0 - 10, T0 + 10, TRUE, None, FALSE)
          [] c = "FIXED" -> CouponRow(10, 2000, T0 - 10, T0 + 10, TRUE, None, FALSE)
          [] c = "USED" -> CouponRow(10, 0, T0 - 10, T0 + 10, TRUE, None, TRUE)
          [] c = "OWNED" -> CouponRow(10, 0, T0 - 10, T0 + 10, TRUE, "u2", FALSE)
          [] c = "HALF" -> CouponRow(50, 0, T0 - 10, T0 + 10, TRUE, None, FALSE)
          [] c = "OLD" -> CouponRow(10, 0, T0 - 10, T0 - 1, TRUE, None, FALSE)
          [] c = "SOON" -> CouponRow(10, 0, T0 + 1, T0 + 10, TRUE, None, FALSE)
          [] OTHER -> CouponRow(10, 0, T0 - 10, T0 + 10, FALSE, None, FALSE)]

\* coupon_code of the payload: absent, a code no coupon has, or a coupon's
CodeInputs == {None, "BOGUS"} \cup DOMAIN CouponTable

\* An order placed earlier by checkout: one line of P1, no coupon.
PriorOrder(pk, u, status, created_at) ==
    [pk |-> pk,
     order_id |-> <<created_at, UserId[u]>>,
     user |-> u,
     status |-> status,
     created_at |-> created_at,
     city |-> "RABAT",
     shipping_fee |-> 0,
     total_amount |-> Price["P1"],
     coupon |-> NoCoupon,
     items |-> <<[product |-> "P1", product_price |-> Price["P1"], size |-> "M",
                  color |-> "RED", quantity |-> 1]>>]

\* What u1 has ordered before the model starts: nothing; two active orders;
\* three active orders; two active and one delivered; two active and one
\* placed exactly / just over thirty days before T0.
PriorOrderSets ==
    LET a == PriorOrder(1, "u1", PROCESSING, T0 - 30)
        b == PriorOrder(2, "u1", SHIPPED, T0 - 20)
    IN  {{},
         {a, b},
         {a, b, PriorOrder(3, "u1", PROCESSING, T0 - 10)},
         {a, b, PriorOrder(3, "u1", DELIVERED, T0 - 10)},
         {a, b, PriorOrder(3, "u1", PENDING, T0 - ThirtyDays)},
         {a, b, PriorOrder(3, "u1", PENDING, T0 - ThirtyDays - 1)}}

FreshProfile == [points |-> 0, total_lifetime_points |-> 0, tier |-> "BRONZE"]

Savers == {"s1", "s2"}
IdleSaver == [pc |-> "idle", pk |-> 0, instance |-> NoOrder, prof |-> FreshProfile,
              earned |-> 0]

\* The users behind the two requests: two customers, or two tabs of one.
RequestUsers ==
    {[r \in Requests |-> IF r = "r1" THEN "u1" ELSE "u2"],
     [r \in Requests |-> "u1"]}

\* Everything but the stock, the carts, the request users and the prior orders
InitRest ==
    /\ now = T0
    /\ coupons = CouponTable
    /\ nextPk = Cardinality(orders) + 1
    /\ profile = [u \in Users |-> FreshProfile]
    /\ history = <<>>
    /\ saver = [s \in Savers |-> IdleSaver]
    /\ cartAdds = 0
    /\ stock0 = stock
    /\ saves = 0
    /\ jobs = {}

\* Cart lines as CartItemViewSet.create stores them
CartLine(product, size, color, quantity) ==
    [product |-> product, size |-> size, color |-> color, quantity |-> quantity]

\* Carts the cart endpoint has built before the model starts (the stock was
\* sufficient when each line was added)
InitCarts ==
    LET A(q) == CartLine("P1", "M", "RED", q)
        E == CartLine("P2", None, ColorNONE, 1)
        C == CartLine("P1", None, ColorNONE, 1)
    IN  {<<>>, <<A(1)>>, <<A(2)>>, <<A(1), E>>, <<E, A(1)>>, <<C>>}

\* ---------------------------------------------------------------- checkout
\* under concurrency: two requests, every payload valid and without a coupon
\* code.
InitStock ==
    /\ \E q \in 0..MaxStock : stock = [v \in VariantIds |-> q]
    /\ orders = {}
    /\ \E ru \in RequestUsers :
          /\ req = [r \in Requests |-> IdleReq(ru[r])]
          /\ cart \in [Users -> InitCarts]
          /\ \A u \in Users : (\A r \in Requests : ru[r] # u) => cart[u] = <<>>
    /\ InitRest

\* (product, size, color) as the cart endpoint receives them: a variant of
\* P1, P2 without a selection, P1 without a selection
CartSelections == {<<"P1", "M", "RED">>, <<"P2", None, None>>, <<"P1", None, None>>}

CartAdd ==
    \E u \in Users, sel \in CartSelections, q \in 1..MaxQty :
        AddToCart(u, sel[1], sel[2], sel[3], q)

NextStock ==
    \/ Tick
    \/ CartAdd
    \/ \E r \in Requests : CheckoutGuards(r, "RABAT", None)
    \/ \E r \in Requests : CheckoutInsert(r)
    \/ \E r \in Requests : CheckoutReadCart(r)
    \/ \E r \in Requests : CheckoutLine(r)
    \/ \E r \in Requests : CheckoutDeadlock(r)
    \/ \E r \in Requests : CheckoutFinish(r)

SpecStock == InitStock /\ [][NextStock]_vars

\* ------------------------------------------------------ totals and coupons
\* two customers with filled carts and ample stock; any city, any coupon code.
InitTotals ==
    /\ stock = [v \in VariantIds |-> MaxStock]
    /\ orders = {}
    /\ req = [r \in Requests |-> IdleReq(IF r = "r1" THEN "u1" ELSE "u2")]
    /\ cart \in [Users -> {<<CartLine("P1", "M", "RED", 2)>>,
                           <<CartLine("P2", None, ColorNONE, 1)>>,
                           <<CartLine("P1", "M", "RED", 1),
                             CartLine("P2", None, ColorNONE, 1)>>}]
    /\ InitRest

NextTotals ==
    \/ Tick
    \/ \E r \in Requests, city \in CityInputs, code \in CodeInputs :
          CheckoutGuards(r, city, code)
    \/ \E r \in Requests : CheckoutInsert(r)
    \/ \E r \in Requests : CheckoutReadCart(r)
    \/ \E r \in Requests : CheckoutLine(r)
    \/ \E r \in Requests : CheckoutFinish(r)

SpecTotals == InitTotals /\ [][NextTotals]_vars

\* ------------------------------------------------------- active-order limit
\* two requests of u1, who has ordered before; the cart is refilled through
\* the cart endpoint.
InitLimit ==
    /\ stock = [v \in VariantIds |-> MaxStock]
    /\ orders \in PriorOrderSets
    /\ req = [r \in Requests |-> IdleReq("u1")]
    /\ cart \in [Users -> {<<>>, <<CartLine("P2", None, ColorNONE, 1)>>}]
    /\ cart["u2"] = <<>>
    /\ InitRest

NextLimit ==
    \/ Tick
    \/ \E q \in 1..MaxQty : AddToCart("u1", "P2", None, None, q)
    \/ \E r \in Requests : CheckoutGuards(r, "RABAT", None)
    \/ \E r \in Requests : CheckoutInsert(r)
    \/ \E r \in Requests : CheckoutReadCart(r)
    \/ \E r \in Requests : CheckoutLine(r)
    \/ \E r \in Requests : CheckoutFinish(r)

SpecLimit == InitLimit /\ [][NextLimit]_vars

\* ------------------------------------------------------------------ loyalty
\* Deviation: the thresholds compared strictly
calculate_tier_Strict(total_lifetime_points) ==
    IF total_lifetime_points > GoldThreshold THEN "GOLD"
    ELSE IF total_lifetime_points > SilverThreshold THEN "SILVER"
    ELSE "BRONZE"

\* LoyaltyProfile.calculate_tier, models.py 241-249
calculate_tier(total_lifetime_points) ==
    IF total_lifetime_points >= GoldThreshold THEN "GOLD"
    ELSE IF total_lifetime_points >= SilverThreshold THEN "SILVER"
    ELSE "BRONZE"

\* Deviation: the award made on every save with status DELIVERED
DeliveryEdge_AnyDelivered(old_status, new_status) == new_status = DELIVERED

\* signals.py 31-34: the save crosses into DELIVERED
DeliveryEdge(old_status, new_status) ==
    old_status # DELIVERED /\ new_status = DELIVERED

\* Deviation: the shipping fee counted into the points
BasePoints_WithShipping(total_amount, shipping_fee) ==
    IF total_amount > 0 THEN total_amount \div SpendPerPoint ELSE 0

\* signals.py 38-41: int(net_spent // 10), 0 when net_spent is not positive
BasePoints(total_amount, shipping_fee) ==
    LET net_spent == total_amount - shipping_fee IN
    IF net_spent > 0 THEN net_spent \div SpendPerPoint ELSE 0

\* Deviation: the GOLD bonus rounded up
PointsEarned_RoundUp(base, tier) ==
    IF tier = "GOLD" THEN (base * 3 + 1) \div 2 ELSE base

\* Deviation: the bonus given from SILVER on
PointsEarned_FromSilver(base, tier) ==
    IF tier \in {"GOLD", "SILVER"} THEN (base * 3) \div 2 ELSE base

\* signals.py 47-48: int(points_earned * 1.5) for a GOLD profile
PointsEarned(base, tier) == IF tier = "GOLD" THEN (base * 3) \div 2 ELSE base

\* The view (or the admin) loads the order and sets the submitted fields on
\* the instance; a negative fee stands for a payload without shipping_fee.
SaveLoad(s, pk, status, fee) ==
    /\ saver[s].pc = "idle"
    /\ saves < MaxSaves
    /\ saves' = saves + 1
    /\ \E o \in orders :
          /\ o.pk = pk
          /\ saver' = [saver EXCEPT ![s] =
                [IdleSaver EXCEPT
                    !.pc = "presave",
                    !.pk = pk,
                    !.instance = [o EXCEPT !.status = status,
                                           !.shipping_fee = IF fee < 0 THEN @ ELSE fee]]]
    /\ UNCHANGED <<now, stock, cart, orders, coupons, nextPk, req, profile, history,
                   cartAdds, stock0, jobs>>

\* signals.py 20-44: pre_save reads the stored row and decides; when points
\* are due it fetches the profile.
SavePreSave(s) ==
    /\ saver[s].pc = "presave"
    /\ LET inst == saver[s].instance
           old_order == OrderByPkOf(orders, saver[s].pk)
           base == BasePoints(inst.total_amount, inst.shipping_fee)
           prof == profile[inst.user]
       IN  IF DeliveryEdge(old_order.status, inst.status) /\ base > 0
           THEN saver' = [saver EXCEPT ![s].pc = "award",
                                       ![s].prof = prof,
                                       ![s].earned = PointsEarned(base, prof.tier)]
           ELSE saver' = [saver EXCEPT ![s].pc = "persist"]
    /\ UNCHANGED <<now, stock, cart, orders, coupons, nextPk, req, profile, history,
                   cartAdds, stock0, saves, jobs>>

\* signals.py 50-53: add the points to the fetched profile, recompute the
\* tier, save the row.
SaveAward(s) ==
    /\ saver[s].pc = "award"
    /\ LET prof == saver[s].prof
           lifetime == prof.total_lifetime_points + saver[s].earned
       IN  profile' = [profile EXCEPT ![saver[s].instance.user] =
                          [points |-> prof.points + saver[s].earned,
                           total_lifetime_points |-> lifetime,
                           tier |-> calculate_tier(lifetime)]]
    /\ saver' = [saver EXCEPT ![s].pc = "history"]
    /\ UNCHANGED <<now, stock, cart, orders, coupons, nextPk, req, history,
                   cartAdds, stock0, saves, jobs>>

\* signals.py 55-60: the EARN row
SaveHistory(s) ==
    /\ saver[s].pc = "history"
    /\ history' = Append(history,
                         [user |-> saver[s].instance.user,
                          type |-> "EARN",
                          points |-> saver[s].earned,
                          order_id |-> saver[s].instance.order_id])
    /\ saver' = [saver EXCEPT ![s].pc = "persist"]
    /\ UNCHANGED <<now, stock, cart, orders, coupons, nextPk, req, profile,
                   cartAdds, stock0, saves, jobs>>

\* Order.save, models.py 613: the instance replaces the stored row
SavePersist(s) ==
    /\ saver[s].pc = "persist"
    /\ orders' = {o \in orders : o.pk # saver[s].pk} \cup {saver[s].instance}
    /\ saver' = [saver EXCEPT ![s] = IdleSaver]
    /\ UNCHANGED <<now, stock, cart, coupons, nextPk, req, profile, history,
                   cartAdds, stock0, saves, jobs>>

\* The save does not complete: the process dies, or the UPDATE of the order
\* row fails.  pre_save runs before Model.save opens its write and the update
\* endpoint (views.py 553-565) has no transaction.atomic, so what the handler
\* has written (profile.save, LoyaltyHistory.objects.create) is already
\* committed and stays.
SaveCrash(s) ==
    /\ saver[s].pc \in {"presave", "award", "history", "persist"}
    /\ saver' = [saver EXCEPT ![s] = IdleSaver]
    /\ UNCHANGED <<now, stock, cart, orders, coupons, nextPk, req, profile, history,
                   cartAdds, stock0, saves, jobs>>

\* An Order saved for the first time (instance.pk is None): pre_save returns
\* at signals.py 22-23 and the row is inserted.
OrderCreate(u, status, total_amount) ==
    /\ Cardinality(orders) < MaxOrders
    /\ ~(\E o \in orders : o.order_id = order_id(u))
    /\ orders' = orders \cup
          {[pk |-> nextPk, order_id |-> order_id(u), user |-> u, status |-> status,
            created_at |-> now, city |-> "RABAT", shipping_fee |-> 0,
            total_amount |-> total_amount, coupon |-> NoCoupon, items |-> <<>>]}
    /\ nextPk' = nextPk + 1
    /\ UNCHANGED <<now, stock, cart, coupons, req, profile, history, saver,
                   cartAdds, stock0, saves, jobs>>

\* total_amount of the orders the loyalty runs start with: worth 0, 9, 500
\* and 2000 points
OrderTotals == {500, 9500, 500000, 2000000}

StatusInputs == {DELIVERED, RETURNED}
\* shipping_fee of the payload: left out, or 25.00
Unset == 0 - 1
FeeInputs == {Unset, DefaultFee}

\* one PENDING order of u1, as checkout leaves it
InitLoyalty ==
    /\ stock = [v \in VariantIds |-> MaxStock]
    /\ \E t \in OrderTotals :
          orders = {[PriorOrder(1, "u1", PENDING, T0 - 20) EXCEPT !.total_amount = t]}
    /\ req = [r \in Requests |-> IdleReq("u1")]
    /\ cart = [u \in Users |-> <<>>]
    /\ InitRest

NextLoyalty ==
    \/ \E s \in Savers, pk \in 1..MaxOrders, status \in StatusInputs, fee \in FeeInputs :
          SaveLoad(s, pk, status, fee)
    \/ \E s \in Savers : SavePreSave(s)
    \/ \E s \in Savers : SaveAward(s)
    \/ \E s \in Savers : SaveHistory(s)
    \/ \E s \in Savers : SavePersist(s)
    \/ \E status \in {PENDING, DELIVERED}, t \in OrderTotals : OrderCreate("u1", status, t)

SpecLoyalty == InitLoyalty /\ [][NextLoyalty]_vars

\* =================================================================== claims
\* ------------------------------------------- delivery saves that may fail
\* one PENDING order of u1; every save sets status DELIVERED and may stop at
\* any point.
NextAtomic ==
    \/ \E s \in Savers, fee \in FeeInputs : SaveLoad(s, 1, DELIVERED, fee)
    \/ \E s \in Savers : SavePreSave(s)
    \/ \E s \in Savers : SaveAward(s)
    \/ \E s \in Savers : SaveHistory(s)
    \/ \E s \in Savers : SavePersist(s)
    \/ \E s \in Savers : SaveCrash(s)

SpecAtomic == InitLoyalty /\ [][NextAtomic]_vars

\* --------------------------------------------------------- point conversion
\* The conversion endpoint (urls.py 113).  ConvertPointsSerializer
\* (serializers.py 473-474) accepts points_to_burn >= 100.  The view is not
\* among the sources; it is modelled as the specification describes it: it
\* takes the points from the balance when the balance covers them and records
\* a SPEND row, and answers a validation error otherwise.
SpendRows == {i \in 1..Len(history) : history[i].type = "SPEND"}

\* Deviation: the balance not compared with the amount
CanConvert_NoBalanceCheck(points, points_to_burn) == points_to_burn >= MinBurn

\* Deviation: no minimum amount
CanConvert_NoMinimum(points, points_to_burn) ==
    points_to_burn > 0 /\ points_to_burn <= points

CanConvert(points, points_to_burn) ==
    points_to_burn >= MinBurn /\ points_to_burn <= points

ConvertPoints(u, points_to_burn) ==
    /\ Cardinality(SpendRows) < MaxConversions
    /\ IF CanConvert(profile[u].points, points_to_burn)
       THEN /\ profile' = [profile EXCEPT ![u].points = @ - points_to_burn]
            /\ history' = Append(history,
                                 [user |-> u, type |-> "SPEND",
                                  points |-> points_to_burn, order_id |-> <<>>])
       ELSE UNCHANGED <<profile, history>>
    /\ UNCHANGED <<now, stock, cart, orders, coupons, nextPk, req, saver,
                   cartAdds, stock0, saves, jobs>>

\* points_to_burn of the payload
PointInputs == {MinBurn - 1, MinBurn, 500, 501}

\* one PENDING order of u1; it is delivered, and u1 converts points.
NextConvert ==
    \/ \E s \in Savers, fee \in FeeInputs : SaveLoad(s, 1, DELIVERED, fee)
    \/ \E s \in Savers : SavePreSave(s)
    \/ \E s \in Savers : SaveAward(s)
    \/ \E s \in Savers : SaveHistory(s)
    \/ \E s \in Savers : SavePersist(s)
    \/ \E n \in PointInputs : ConvertPoints("u1", n)

SpecConvert == InitLoyalty /\ [][NextConvert]_vars

OrderByPk(pk) == OrderByPkOf(orders, pk)

Created == {r \in Requests : req[r].pc = "done" /\ req[r].result = "created"}

\* C1: every ProductVariant.quantity is >= 0 in every reachable state, as
\* committed and as written inside any checkout transaction, and no checkout
\* ever attempts a decrement below zero (the views.py 640 check under the row
\* lock comes first, so the column's CHECK never has to stop one).
C1_QuantityNonNegative ==
    /\ \A v \in VariantIds : stock[v] >= 0
    /\ \A r \in Requests : \A v \in req[r].locks : req[r].quantity[v] >= 0
    /\ \A r \in Requests : req[r].result # "negative"

\* C1 witness: a checkout has sold a variant out and another one, for the
\* same variant, was refused.
C1_Witness ==
    /\ stock0[1] > 0
    /\ stock[1] = 0
    /\ req["r1"].result = "created"
    /\ req["r2"].result = "outofstock"

\* The race of C2: both requests are done, they are of different users, no
\* cart request intervened, and each cart was the single line of d units of
\* variant 1 (a created order holds that line, a refused cart still does).
RaceLine(d) == CartLine("P1", "M", "RED", d)

RaceOver(d) ==
    /\ cartAdds = 0
    /\ req["r1"].user # req["r2"].user
    /\ \A r \in Requests :
          /\ req[r].pc = "done"
          /\ IF req[r].result = "created"
             THEN OrderByPk(req[r].pk).items = <<OrderItemOf(RaceLine(d))>>
             ELSE cart[req[r].user] = <<RaceLine(d)>>

\* C2: of N = 2 checkouts by different users, each for d units of a variant
\* whose stock is q, exactly min(N, q div d) commit an order, the others fail
\* on insufficient stock, and the final stock is q - successes * d.
C2_RaceAdmitsFloor ==
    \A d \in 1..MaxQty :
        RaceOver(d) =>
            LET q == stock0[1]
                successes == Cardinality(Created)
            IN  /\ successes = IF q \div d < 2 THEN q \div d ELSE 2
                /\ \A r \in Requests \ Created : req[r].result = "outofstock"
                /\ stock[1] = q - successes * d

\* C2 witness: q = 1, d = 1: exactly one order, the other request refused,
\* final quantity 0.
C2_Witness ==
    /\ RaceOver(1)
    /\ stock0[1] = 1
    /\ Cardinality(Created) = 1
    /\ Cardinality(orders) = 1
    /\ stock[1] = 0

\* C2 witness of the cap: q = 3, d = 1: both commit, one unit is left.
C2_WitnessCap ==
    /\ RaceOver(1)
    /\ stock0[1] = 3
    /\ Cardinality(Created) = 2
    /\ stock[1] = 1

\* A checkout commits in this step
Commits == \E r \in Requests : req[r].pc # "done" /\ req'[r].result = "created"

\* C3: a step in which no checkout commits (every guard failure, every
\* exception, every step inside a transaction) leaves the Order rows, their
\* items, the variant quantities and the coupons as they were, and changes a
\* cart only if it is a request to the cart endpoint.
C3_FailureLeavesNoTrace ==
    [][~Commits =>
          /\ UNCHANGED <<orders, stock, coupons>>
          /\ (cart' # cart => cartAdds' # cartAdds)]_vars

\* C3 witness: a checkout that has decremented variant 1 for its first line
\* is about to fail on its second line.
C3_Witness ==
    \E r \in Requests :
        /\ req[r].pc = "lines"
        /\ req[r].idx = 2
        /\ 1 \in req[r].locks
        /\ req[r].quantity[1] < stock[1]
        /\ Len(req[r].items) = 2
        /\ First(VariantQs(req[r].items[2].product, req[r].items[2].size,
                           req[r].items[2].color)) = NoVariant

\* C3 witness: a checkout has failed on its second line and the stock of the
\* first line's variant is what the run started with.
C3_WitnessAfter ==
    \E r \in Requests :
        /\ req[r].result = "notfound"
        /\ Len(cart[req[r].user]) = 2
        /\ cart[req[r].user][1] = RaceLine(1)
        /\ stock = stock0
        /\ orders = {}

\* Orders this run's checkouts have committed
CheckoutOrders == {o \in orders : \E r \in Requests : req[r].pk = o.pk}

\* C4 (as claimed): a coupon is applied to at most one order ever.
C4_CouponAtMostOnce ==
    \A code \in DOMAIN coupons :
        Cardinality({o \in orders : o.coupon = code}) <= 1

\* C4 (as claimed): a coupon an order references is marked used, with used_at
\* set, by the transaction that applied it.
C4_CouponMarkedUsed ==
    \A o \in orders :
        o.coupon # NoCoupon =>
            coupons[o.coupon].is_used /\ coupons[o.coupon].used_at # None

\* The exact total of an order, in 1/100 centime: the sum over its items of
\* product_price * quantity, plus its shipping_fee, minus the percentage
\* discount of its coupon (0 without a coupon).
ExactTotal(o) ==
    LET sub == ItemsSubtotal(o.items)
        discount == IF o.coupon = NoCoupon
                    THEN 0
                    ELSE sub * coupons[o.coupon].discount_percentage
    IN  sub * 100 + o.shipping_fee * 100 - discount

Abs(x) == IF x < 0 THEN -x ELSE x

\* C5 (as claimed): total_amount is exactly the sum of the items plus the
\* shipping fee minus the discount.
C5_TotalExact ==
    \A o \in CheckoutOrders : o.total_amount * 100 = ExactTotal(o)

\* C5: every order a checkout commits has total_amount equal to the sum of
\* its items' product_price * quantity, plus its shipping_fee, minus the
\* discount applied, to the nearest centime (equal when the exact amount is a
\* whole number of centimes).
C5_TotalIsItemsPlusFeeMinusDiscount ==
    \A o \in CheckoutOrders :
        Abs(o.total_amount * 100 - ExactTotal(o)) <= 50

\* C5 witness: an order of two lines with a coupon, whose exact total had a
\* fraction of a centime.
C5_Witness ==
    \E o \in CheckoutOrders :
        /\ Len(o.items) = 2
        /\ o.coupon = "HALF"
        /\ ExactTotal(o) % 100 # 0
        /\ o.total_amount * 100 # ExactTotal(o)

\* C6 (as claimed): every order created by checkout has shipping_fee equal to
\* the lookup on its shipping city, and the fee is part of total_amount.
C6_ShippingFeeCharged ==
    \A o \in CheckoutOrders :
        /\ o.shipping_fee = calculate_shipping_fee(o.city)
        /\ Abs(o.total_amount * 100
                 - (ExactTotal([o EXCEPT !.shipping_fee = 0])
                      + calculate_shipping_fee(o.city) * 100)) <= 50

\* C6 (as claimed), the scenario: price 100.00 x 2, CASABLANCA, no coupon
\* gives 210.00; with the 10% coupon 190.00.
C6_Scenario ==
    \A o \in CheckoutOrders :
        (/\ Len(o.items) = 1
         /\ o.items[1].product_price = 10000
         /\ o.items[1].quantity = 2
         /\ o.city = "CASABLANCA")
        => /\ o.coupon = NoCoupon => o.total_amount = 21000
           /\ o.coupon = "SAVE10" => o.total_amount = 19000

\* The orders of u that count toward the limit, as C7 words them
C7_Counted(u) ==
    {o \in orders :
        /\ o.user = u
        /\ o.status \in {"PENDING", "PROCESSING", "SHIPPED"}
        /\ now - o.created_at <= ThirtyDays}

\* C7: a checkout whose user has 3 or more counted orders when the guard is
\* evaluated is rejected and creates no order (429 when the cart holds a
\* line); with fewer than 3 counted orders (orders in another status or
\* older than 30 days do not count) it is admitted.
C7_ActiveOrderLimit ==
    [][\A r \in Requests :
          (req[r].pc = "idle" /\ req'[r].pc # "idle") =>
              LET u == req[r].user
                  n == Cardinality(C7_Counted(u))
              IN  /\ n >= 3 =>
                        /\ req'[r].pc = "done"
                        /\ req'[r].pk = 0
                        /\ req'[r].result \in {"limit", "empty"}
                        /\ (cart[u] # <<>> => req'[r].result = "limit")
                        /\ orders' = orders
                  /\ (n < 3 /\ cart[u] # <<>>) => req'[r].pc = "insert"]_vars

\* C7 witness: a request was rejected on the limit while its user has three
\* counted orders.
C7_Witness ==
    \E r \in Requests :
        /\ req[r].result = "limit"
        /\ Cardinality(C7_Counted(req[r].user)) = 3

\* C7 witness: a request was admitted although its user has three orders,
\* one of them delivered or older than thirty days.
C7_WitnessNotCounted ==
    \E r \in Requests :
        /\ req[r].pc = "insert"
        /\ Cardinality({o \in orders : o.user = req[r].user}) = 3
        /\ Cardinality(C7_Counted(req[r].user)) = 2

\* Saver s leaves pre_save in this step
PreSaveStep(s) == saver[s].pc = "presave" /\ saver'[s].pc # "presave"

\* The status of the stored row of the order saver s is saving
StoredStatus(s) == OrderByPk(saver[s].pk).status

\* Whole points an order is worth: the e with 10.00 * e <= net < 10.00 * (e + 1),
\* 0 when the net amount is not positive
C_Floor(net) == CHOOSE e \in 0..(Abs(net) \div 1000 + 1) :
                    IF net <= 0 THEN e = 0 ELSE e * 1000 <= net /\ net < (e + 1) * 1000

\* C8: a save of an existing order whose stored status is not DELIVERED with
\* new status DELIVERED awards the points the order is worth once: it enters
\* the award from pre_save, and a save enters the award at no other step,
\* so it makes one profile update and one EARN row (an order worth no point
\* has nothing to award, C9). A save of an order whose stored status is
\* DELIVERED awards nothing and appends no row, whatever else it changes.
\* Saving a new order awards nothing: the profile and the history change
\* only in the award of a save of an existing order.
C8_AwardOnDeliveryEdgeOnly ==
    [][/\ \A s \in Savers :
            PreSaveStep(s) =>
                /\ StoredStatus(s) = "DELIVERED" => saver'[s].pc = "persist"
                /\ saver[s].instance.status # "DELIVERED" => saver'[s].pc = "persist"
                /\ (/\ StoredStatus(s) # "DELIVERED"
                    /\ saver[s].instance.status = "DELIVERED"
                    /\ C_Floor(saver[s].instance.total_amount
                                 - saver[s].instance.shipping_fee) > 0)
                   => saver'[s].pc = "award"
       /\ profile' # profile =>
            \E s \in Savers : saver[s].pc = "award" /\ saver'[s].pc = "history"
       /\ history' # history =>
            /\ Len(history') = Len(history) + 1
            /\ \E s \in Savers : saver[s].pc = "history" /\ saver'[s].pc = "persist"
       /\ \A s \in Savers :
            (saver'[s].pc = "award" /\ saver'[s] # saver[s]) => PreSaveStep(s)]_vars

\* C8 witness: an order has been delivered and awarded once, and a second
\* save of it, again with status DELIVERED and now with a shipping fee, has
\* passed pre_save without an award.
C8_Witness ==
    \E s \in Savers :
        /\ saver[s].pc = "persist"
        /\ saver[s].instance.status = "DELIVERED"
        /\ StoredStatus(s) = "DELIVERED"
        /\ saver[s].instance.shipping_fee # OrderByPk(saver[s].pk).shipping_fee
        /\ Len(history) = 1
        /\ history[1].order_id = saver[s].instance.order_id

\* C8 witness: an order created with status DELIVERED, and no award made.
C8_WitnessNew ==
    /\ \E o \in orders : o.pk = 2 /\ o.status = "DELIVERED"
    /\ history = <<>>
    /\ profile["u1"] = FreshProfile
    /\ saves = 0

\* C9: an award to a profile that is not GOLD adds floor((total_amount -
\* shipping_fee) / 10) to points and to total_lifetime_points of the profile
\* it read (of the stored profile, when no other award wrote in between);
\* a delivery whose net amount is <= 0 or < 10 makes no award and changes
\* neither field.
C9_EarnedIsFloorOfNetOverTen ==
    [][\A s \in Savers :
          LET inst == saver[s].instance
              u == inst.user
              earned == C_Floor(inst.total_amount - inst.shipping_fee)
          IN  /\ (saver[s].pc = "award" /\ saver'[s].pc = "history"
                    /\ saver[s].prof.tier # "GOLD") =>
                    /\ earned > 0
                    /\ profile'[u].points = saver[s].prof.points + earned
                    /\ profile'[u].total_lifetime_points
                         = saver[s].prof.total_lifetime_points + earned
                    /\ saver[s].prof = profile[u] =>
                          /\ profile'[u].points = profile[u].points + earned
                          /\ profile'[u].total_lifetime_points
                               = profile[u].total_lifetime_points + earned
              /\ (PreSaveStep(s) /\ earned = 0) =>
                    /\ saver'[s].pc = "persist"
                    /\ profile' = profile]_vars

\* C9 witness: an order of 95.00 with a shipping fee of 25.00 has earned 7
\* points.
C9_Witness ==
    /\ profile["u1"].points = 7
    /\ profile["u1"].total_lifetime_points = 7
    /\ \E o \in orders :
          o.total_amount = 9500 /\ o.shipping_fee = 2500 /\ o.status = "DELIVERED"

\* C9 witness: an order whose net amount is negative has been delivered and
\* the profile is untouched.
C9_WitnessNoPoints ==
    /\ profile["u1"] = FreshProfile
    /\ \E o \in orders :
          o.total_amount = 500 /\ o.shipping_fee = 2500 /\ o.status = "DELIVERED"

\* The tier the thresholds give
C10_TierOf(lifetime) ==
    CASE lifetime >= 2000 -> "GOLD"
      [] lifetime >= 500 /\ lifetime < 2000 -> "SILVER"
      [] OTHER -> "BRONZE"

\* C10: in every state reachable from fresh profiles by awards, the stored
\* tier is the one the thresholds give for the stored total_lifetime_points
\* (>= 2000 GOLD, >= 500 SILVER, else BRONZE).
C10_TierAgreesWithLifetime ==
    \A u \in Users : profile[u].tier = C10_TierOf(profile[u].total_lifetime_points)

\* C10 witness: awards have taken a profile to exactly 2000 lifetime points
\* and GOLD.
C10_Witness ==
    /\ profile["u1"].total_lifetime_points = 2000
    /\ profile["u1"].tier = "GOLD"
    /\ Len(history) >= 1

\* C10 witness: a profile at exactly 500 lifetime points is SILVER.
C10_WitnessSilver ==
    /\ profile["u1"].total_lifetime_points = 500
    /\ profile["u1"].tier = "SILVER"

\* EARN rows recorded for order o
EarnRows(o) == {i \in 1..Len(history) : history[i].order_id = o.order_id}

\* C11 (as claimed): whenever no save of an order is in flight, points are
\* recorded for it only if its stored status is DELIVERED, and an order
\* stored as DELIVERED that is worth at least one point has its points
\* recorded.
C11_AwardAtomicWithStatus ==
    \A o \in orders :
        (\A s \in Savers : saver[s].pk # o.pk) =>
            /\ EarnRows(o) # {} => o.status = "DELIVERED"
            /\ (o.status = "DELIVERED"
                  /\ C_Floor(o.total_amount - o.shipping_fee) > 0) => EarnRows(o) # {}

\* Request r is served in this step, having arrived idle
Arrives(r) == req[r].pc = "idle" /\ req'[r] # req[r]

\* C12: a checkout of a user whose cart has no line returns EmptyCart and
\* changes no stored state, whatever the number of the user's active orders
\* (the guard comes before the active-order limit).
C12_EmptyCartRejected ==
    [][\A r \in Requests :
          (Arrives(r) /\ cart[req[r].user] = <<>>) =>
              /\ req'[r].pc = "done"
              /\ req'[r].result = "empty"
              /\ UNCHANGED <<orders, stock, cart, coupons, nextPk, profile, history, jobs>>]_vars

\* C12 witness: a user with three active orders and an empty cart has been
\* answered EmptyCart.
C12_Witness ==
    \E r \in Requests :
        /\ req[r].pc = "done"
        /\ req[r].result = "empty"
        /\ active_orders_count(req[r].user) >= ActiveOrderLimit
        /\ cart[req[r].user] = <<>>

\* The discount a committed order was given, in centimes
DiscountGiven(o) == ItemsSubtotal(o.items) + o.shipping_fee - o.total_amount

\* C13 (as claimed): the discount of an order whose coupon has a fixed amount
\* > 0 is that amount, whatever the percentage; otherwise it is the
\* percentage of the items' sum (to the nearest centime).
C13_FixedAmountTakesPrecedence ==
    \A o \in CheckoutOrders :
        o.coupon # NoCoupon =>
            LET c == coupons[o.coupon] IN
            IF c.fixed_discount_amount > 0
            THEN DiscountGiven(o) = c.fixed_discount_amount
            ELSE Abs(DiscountGiven(o) * 100
                       - ItemsSubtotal(o.items) * c.discount_percentage) <= 50

\* Coupon.is_valid (models.py 559-563) at instant t
is_valid(c, t) == c.active /\ c.valid_from <= t /\ t <= c.valid_to /\ ~c.is_used

\* C14 (as claimed): an order carries a coupon only if the coupon was valid
\* (active, inside its window, not used) when the checkout looked it up.
C14_CouponAttachedOnlyIfValid ==
    \A o \in CheckoutOrders :
        o.coupon # NoCoupon => is_valid(coupons[o.coupon], o.created_at)

\* C15 (as claimed): any two orders have distinct order ids, and no creation
\* fails because its order id is already taken, also for two checkouts of
\* one user within the same second.
C15_OrderIdsUniqueNoCollision ==
    /\ \A o1, o2 \in orders : o1.pk # o2.pk => o1.order_id # o2.order_id
    /\ \A r \in Requests : req[r].result # "integrity"

\* C16 (as claimed): no step changes the total_amount, the shipping_fee or
\* the items of a stored order.
C16_OrderImmutableButStatus ==
    [][\A o \in orders : \A o2 \in orders' :
          o2.pk = o.pk =>
              /\ o2.total_amount = o.total_amount
              /\ o2.shipping_fee = o.shipping_fee
              /\ o2.items = o.items]_vars

\* C17 (as claimed): once a checkout has committed its order, a confirmation
\* job for that order is queued, and jobs are queued for committed orders
\* only.
C17_NotificationScheduled ==
    /\ \A r \in Requests : req[r].result = "created" => req[r].pk \in jobs
    /\ \A pk \in jobs : \E o \in orders : o.pk = pk

\* A SPEND row for user u is appended in this step
Converts(u) ==
    /\ Len(history') = Len(history) + 1
    /\ history'[Len(history')].type = "SPEND"
    /\ history'[Len(history')].user = u

\* C18: a conversion that is accepted burns an amount n with n >= 100 and
\* n <= the points of the profile, takes exactly n from points, leaves
\* total_lifetime_points (and the tier) as they were and appends one SPEND
\* row of n; points is never negative.
C18_ConversionBurnsWithinBalance ==
    [][\A u \in Users :
          /\ profile'[u].points >= 0
          /\ Converts(u) =>
                LET n == history'[Len(history')].points IN
                /\ n >= 100
                /\ n <= profile[u].points
                /\ profile'[u].points = profile[u].points - n
                /\ profile'[u].total_lifetime_points = profile[u].total_lifetime_points
                /\ profile'[u].tier = profile[u].tier
                /\ SubSeq(history', 1, Len(history)) = history]_vars

\* C18 witness: u1 earned 500 points and has converted 100 of them.
C18_Witness ==
    /\ profile["u1"].points = 400
    /\ profile["u1"].total_lifetime_points = 500
    /\ \E i \in SpendRows : history[i].points = 100

\* C18 witness: u1 has burnt the whole balance.
C18_WitnessAll ==
    /\ profile["u1"].points = 0
    /\ profile["u1"].total_lifetime_points = 500
    /\ \E i \in SpendRows : history[i].points = 500

\* A cart line as stored for a product added without a size or a color
NoSelection(item) == item.size = None /\ item.color = ColorNONE

\* Request r handles its current cart line in this step
HandlesLine(r) ==
    /\ req[r].pc = "lines"
    /\ req[r].idx <= Len(req[r].items)
    /\ req'[r] # req[r]

\* C19 (as claimed): handling a cart line without a selection locks no
\* variant row, changes no variant quantity and does not fail on a missing
\* variant or on the stock.
C19_NoSelectionNoInventory ==
    [][\A r \in Requests :
          (HandlesLine(r) /\ NoSelection(req[r].items[req[r].idx])) =>
              /\ req'[r].result \notin {"notfound", "outofstock", "negative"}
              /\ req'[r].pc = "lines" =>
                    /\ req'[r].locks = req[r].locks
                    /\ req'[r].quantity = req[r].quantity
              /\ stock' = stock]_vars

\* C20 (as claimed): no two checkouts each hold the lock of a variant row the
\* other one is waiting for.
C20_NoCircularWait ==
    \A r, o \in Requests :
        ~(/\ r # o
          /\ WaitsFor(r) # NoVariant
          /\ WaitsFor(o) # NoVariant
          /\ WaitsFor(r) \in req[o].locks
          /\ WaitsFor(o) \in req[r].locks)

\* C21 (as claimed): an order carries a coupon bound to an owner only if the
\* order's user is that owner.
C21_OwnedCouponOnlyForOwner ==
    \A o \in CheckoutOrders :
        (o.coupon # NoCoupon /\ coupons[o.coupon].owner # None) =>
            coupons[o.coupon].owner = o.user

\* Saver s applies its award in this step
AwardStep(s) == saver[s].pc = "award" /\ saver'[s].pc = "history"

\* floor(1.5 * base): the e with 2e <= 3 * base < 2(e + 1)
C22_OneAndAHalf(base) ==
    CHOOSE e \in 0..(2 * base) : 2 * e <= 3 * base /\ 3 * base < 2 * (e + 1)

\* C22: an award adds floor(net / 10) to a profile that is not GOLD when the
\* handler fetches it, also when the award takes it to GOLD, and
\* floor(floor(net / 10) * 1.5) to a profile that is GOLD when fetched; the
\* tier after the award plays no part.
C22_GoldMultiplierByTierBefore ==
    [][\A s \in Savers :
          AwardStep(s) =>
              LET inst == saver[s].instance
                  before == saver[s].prof
                  base == C_Floor(inst.total_amount - inst.shipping_fee)
                  added == profile'[inst.user].total_lifetime_points
                             - before.total_lifetime_points
              IN  /\ before.tier = "GOLD" => added = C22_OneAndAHalf(base)
                  /\ before.tier # "GOLD" => added = base
                  /\ profile'[inst.user].points - before.points = added]_vars

\* C22 witness: an award of 2000 points took the fresh profile to GOLD
\* unmultiplied, and the next order, worth 9 points, earned 13.
C22_Witness ==
    /\ Len(history) = 2
    /\ history[1].points = 2000
    /\ history[2].points = 13
    /\ profile["u1"].total_lifetime_points = 2013
    /\ profile["u1"].tier = "GOLD"

\* Sum of the EARN rows of user u in history h
EarnSum(h, u) ==
    SumSeq([i \in 1..Len(h) |->
              IF h[i].type = "EARN" /\ h[i].user = u THEN h[i].points ELSE 0])

\* C23: the history only grows, by one row per step at most; a save that
\* has added points to the balance appends one EARN row with that amount as
\* its next step, and a delivery worth no point appends none; so whenever no
\* save is under way the EARN rows of a user sum to total_lifetime_points.
C23_OneEarnRowPerAward ==
    [][/\ Len(history') <= Len(history) + 1
       /\ SubSeq(history', 1, Len(history)) = history
       /\ \A s \in Savers :
            /\ AwardStep(s) =>
                  saver[s].earned = profile'[saver[s].instance.user].points
                                      - saver[s].prof.points
            /\ saver[s].pc = "history" /\ saver'[s] # saver[s] =>
                  /\ Len(history') = Len(history) + 1
                  /\ history'[Len(history')].type = "EARN"
                  /\ history'[Len(history')].user = saver[s].instance.user
                  /\ history'[Len(history')].points = saver[s].earned
                  /\ saver[s].earned > 0
            /\ (PreSaveStep(s) /\ saver'[s].pc = "persist") => history' = history
       /\ (\A s \in Savers : saver'[s].pc = "idle") =>
            \A u \in Users : EarnSum(history', u) = profile'[u].total_lifetime_points]_vars

\* C24: with no cart request running beside it, the step in which a
\* checkout commits leaves the user's cart without lines, and the order it
\* creates has one item per line the cart had, in the same product, size,
\* color and quantity, at the product's price.
C24_OrderCopiesCartAndClearsIt ==
    [][\A r \in Requests :
          (req[r].pc # "done" /\ req'[r].result = "created") =>
              LET u == req[r].user
                  lines == cart[u]
                  o == CHOOSE x \in orders' : x.pk = req'[r].pk
              IN  /\ cart'[u] = <<>>
                  /\ o \notin orders
                  /\ o.user = u
                  /\ Len(o.items) = Len(lines)
                  /\ \A i \in 1..Len(lines) :
                        /\ o.items[i].product = lines[i].product
                        /\ o.items[i].size = lines[i].size
                        /\ o.items[i].color = lines[i].color
                        /\ o.items[i].quantity = lines[i].quantity
                        /\ o.items[i].product_price = Price[lines[i].product]]_vars

\* C24 witness: a cart of two lines checked out, one of them of quantity 2
\* in another order of the same run.
C24_Witness ==
    /\ \E o \in orders : o.user = "u1" /\ Len(o.items) = 2
    /\ \E o \in orders : o.user = "u2" /\ Len(o.items) = 1 /\ o.items[1].quantity = 2
    /\ cart["u1"] = <<>>
    /\ cart["u2"] = <<>>

\* C25: a save of an order that runs with no other save of that order
\* under way decides no award when the history already holds an EARN row of
\* the order: over a sequence of status updates an order is awarded once.
C25_AwardedAtMostOnce ==
    [][\A s \in Savers :
          (/\ PreSaveStep(s)
           /\ \A t \in Savers \ {s} : saver[t].pk # saver[s].pk
           /\ \E i \in 1..Len(history) :
                 /\ history[i].type = "EARN"
                 /\ history[i].order_id = saver[s].instance.order_id)
          => saver'[s].pc = "persist"]_vars

\* C26: of two saves of one order under way at the same time, at most one
\* has decided an award.
C26_ConcurrentSavesAwardOnce ==
    \A s, t \in Savers :
        (s # t /\ saver[s].pk # 0 /\ saver[s].pk = saver[t].pk)
            => ~(saver[s].earned > 0 /\ saver[t].earned > 0)

\* C27: when the saves of two different orders of one user have both made
\* their award and written their EARN row, the user's points and
\* total_lifetime_points stand above the profile the earlier of the two read
\* by the sum of both awards, which is the sum of the two rows.
C27_NoAwardLost ==
    \A s, t \in Savers :
        (/\ s # t
         /\ saver[s].pc = "persist" /\ saver[t].pc = "persist"
         /\ saver[s].earned > 0 /\ saver[t].earned > 0
         /\ saver[s].pk # saver[t].pk
         /\ saver[s].instance.user = saver[t].instance.user
         /\ saver[s].prof.total_lifetime_points <= saver[t].prof.total_lifetime_points)
        => LET u == saver[s].instance.user
               sum == saver[s].earned + saver[t].earned
           IN  /\ profile[u].total_lifetime_points = saver[s].prof.total_lifetime_points + sum
               /\ profile[u].points = saver[s].prof.points + sum
               /\ EarnSum(history, u) = profile[u].total_lifetime_points

\* C28: when both requests are checkouts of one user and no cart request
\* has run, so that both work on the cart as it stood at the start, at most
\* one order is created, and every variant has lost at most what one cart
\* holds of it (MaxQty).
C28_TwoTabsOneOrder ==
    (cartAdds = 0 /\ req["r1"].user = req["r2"].user) =>
        /\ Cardinality(orders) <= 1
        /\ \A v \in VariantIds :
              stock0[v] - stock[v] <= MaxQty

\* C29: in the step in which a checkout commits its order, the user has
\* fewer than 3 committed orders in PENDING, PROCESSING or SHIPPED created
\* within the last 30 days; so of two concurrent checkouts of a user with 2
\* such orders only one commits.
C29_LimitHoldsAtCommit ==
    [][\A r \in Requests :
          (req[r].pc # "done" /\ req'[r].result = "created") =>
              Cardinality(C7_Counted(req[r].user)) < ActiveOrderLimit]_vars

\* C30: every cart line that the committing step of a checkout deletes is
\* an item of the order it creates, with the quantity the line has when it
\* is deleted.
C30_DeletesOnlyOrderedLines ==
    [][\A r \in Requests :
          (req[r].pc # "done" /\ req'[r].result = "created") =>
              LET lines == cart[req[r].user]
                  o == CHOOSE x \in orders' : x.pk = req'[r].pk
              IN  \A i \in 1..Len(lines) :
                      \E j \in 1..Len(o.items) :
                          /\ o.items[j].product = lines[i].product
                          /\ o.items[j].size = lines[i].size
                          /\ o.items[j].color = lines[i].color
                          /\ o.items[j].quantity = lines[i].quantity]_vars

====
